---- MODULE Spec2Model ----
(***************************************************************************)
(* Model of the LUMORA sandbox backend (backend/main.py and                *)
(* backend/tools_router.py):                                               *)
(*   - chat_stream.generate, the relay of the backend's line-delimited     *)
(*     JSON stream as server-sent events        (specification SpecStream) *)
(*   - validate_safe_path and the file endpoints  (specification SpecPath) *)
(*   - run_tool and the six tool handlers         (specification SpecTool) *)
(*   - scan_workspace_structure     (specifications SpecScan, FairSpecScan) *)
(*   - the chat endpoints and validate_chat_id    (specification SpecChat) *)
(***************************************************************************)
EXTENDS Integers, Sequences, FiniteSets, TLC

VARIABLES
    pc,          \* chat_stream.generate: "start", "reading" or "closed"
    consumed,    \* the backend lines aiter_lines() has handed to the loop
    emitted,     \* the events yielded to the client, in order
    evline,      \* for each emitted event, the index of the line it came from (0: none)
    transport,   \* what the backend transport did: "none", "ended",
                 \* "request_error" (httpx.RequestError) or "status_error"
    \* the file endpoints of main.py
    files,       \* the regular files of the filesystem (resolved absolute paths)
    dirs,        \* its directories
    ppc,         \* "idle", "compose" (a client writes a path) or "done"
    req,         \* the caller-supplied path: [base, segs]
    lastop,      \* the endpoint that handled req
    resp,        \* its response: [status, detail]
    opened,      \* the files the handler opened for reading
    listed,      \* the directories the handler enumerated
    created,     \* the files and directories the handler created
    \* run_tool of tools_router.py
    tpc,         \* "idle", "received", "prompted", "returned" or "responded"
    treq,        \* the ToolRunRequest: [toolName, workspacePath, model, sheet]
    tresp,       \* the response: [status, success, result]
    walked,      \* the directories the handler enumerated for this request
    tread,       \* the files the handler opened for this request
    calls,       \* the requests made to the model backend for this request
    backend,     \* what the backend did with the model call
    result,      \* the value the handler returned
    \* scan_workspace_structure of tools_router.py
    spc,         \* "called", "walking", "returned" or "caught" (returned from
                 \* the except clause)
    tree,        \* the directory tree at workspace_path
    max_depth,   \* the depth limit of the call
    structure,   \* the result being built
    seen_inodes, \* the inode numbers of the directories seen
    pending,     \* the directories os.walk has still to yield, next first
    visited,     \* the directories whose contents the loop recorded, in order
    \* the chat endpoints of main.py
    chatfiles,   \* the files in and around the chats directory
    corrupt,     \* those of them whose content is no JSON object
    cpc,         \* "idle", "received" or "done"
    creq,        \* the request: [op, id]
    cresp,       \* the status of the response
    cread,       \* the files the handler read for this request
    cwritten,    \* the files it wrote
    cdeleted     \* the files it removed

streamVars == <<pc, consumed, emitted, evline, transport>>

pathVars == <<files, dirs, ppc, req, lastop, resp, opened, listed, created>>

toolVars == <<tpc, treq, tresp, walked, tread, calls, backend, result>>

scanVars == <<spc, tree, max_depth, structure, seen_inodes, pending, visited>>

chatVars == <<chatfiles, corrupt, cpc, creq, cresp, cread, cwritten, cdeleted>>

vars == <<streamVars, pathVars, toolVars, scanVars, chatVars>>

nonStreamVars == <<pathVars, toolVars, scanVars, chatVars>>
nonPathVars == <<streamVars, toolVars, scanVars, chatVars>>
nonToolVars == <<streamVars, pathVars, scanVars, chatVars>>
nonScanVars == <<streamVars, pathVars, toolVars, chatVars>>
nonChatVars == <<streamVars, pathVars, toolVars, scanVars>>

(***************************************************************************)
(* Bounds of the model.                                                    *)
(***************************************************************************)
MaxLines == 3
MaxSegs == 2      \* segments a caller-supplied path has after its base
MaxWrites == 1    \* files write_file adds to the initial filesystem
MAX_FILES == 3    \* the file ceiling (10000 at tools_router.py 53), scaled down
MAX_DIRS == 4     \* the directory ceiling (1000 at tools_router.py 54), scaled down
MAX_ANALYZED == 1   \* the files analyze_codebase takes (20 at tools_router.py 268), scaled down
PREVIEW_LINES == 2  \* the lines of a file it keeps (50 at tools_router.py 259), scaled down
MaxIdLen == 4       \* characters of a chat id a client sends

Min(a, b) == IF a < b THEN a ELSE b

(***************************************************************************)
(* chat_stream.generate (main.py 235-273)                                  *)
(***************************************************************************)

\* message.content values a backend line may carry ("" also stands for an
\* absent "content" key: chunk["message"].get("content", "") gives "").
Contents == {"", "a", " b "}

\* A backend line, by what line.strip() and json.loads(line) make of it:
\*   k = "blank"      only whitespace
\*   k = "garbage"    not JSON: json.loads raises JSONDecodeError
\*   k = "nonobject"  JSON, but not an object (a number, null, a list)
\*   k = "object"     a JSON object; msg tells whether it has a "message" key
\*                    and whether its value is an object; done is the
\*                    truthiness of chunk.get("done", False)
ObjectLines ==
    [k : {"object"}, msg : {"absent", "nondict"}, content : {""}, done : BOOLEAN]
    \cup [k : {"object"}, msg : {"dict"}, content : Contents, done : BOOLEAN]

BackendLines ==
    [k : {"blank", "garbage", "nonobject"}, msg : {"absent"}, content : {""},
     done : {FALSE}]
    \cup ObjectLines

ContentEvent(text) == [type |-> "content", text |-> text]
DoneEvent == [type |-> "done", text |-> ""]
ErrorEvent(text) == [type |-> "error", text |-> text]

\* The events of one parsed chunk (main.py 256-264): the content event, when
\* the content is non-empty, then the done event, when the chunk is flagged.
ChunkEventsDoneFirst(chunk) ==
    (IF chunk.done THEN <<DoneEvent>> ELSE <<>>)
    \o (IF chunk.content # "" THEN <<ContentEvent(chunk.content)>> ELSE <<>>)

ChunkEvents(chunk) ==
    (IF chunk.content # "" THEN <<ContentEvent(chunk.content)>> ELSE <<>>)
    \o (IF chunk.done THEN <<DoneEvent>> ELSE <<>>)

\* The exception, if any, that the body of the loop raises on a line
\* (main.py 253-266), and the events it yields before that.
\*   "JSONDecodeError" is caught by the inner except (continue);
\*   "TypeError": `"message" in chunk` on a number or null;
\*   "AttributeError": chunk["message"].get on a value that is no dict.
LineOutcomeGarbageFatal(line) ==
    IF line.k = "blank" THEN [events |-> <<>>, exc |-> "none"]
    ELSE IF line.k = "garbage" THEN [events |-> <<>>, exc |-> "ValueError"]
    ELSE IF line.k = "nonobject" THEN [events |-> <<>>, exc |-> "TypeError"]
    ELSE IF line.msg = "nondict" THEN [events |-> <<>>, exc |-> "AttributeError"]
    ELSE [events |-> ChunkEvents(line), exc |-> "none"]

LineOutcome(line) ==
    IF line.k = "blank" THEN [events |-> <<>>, exc |-> "none"]
    ELSE IF line.k = "garbage" THEN [events |-> <<>>, exc |-> "JSONDecodeError"]
    ELSE IF line.k = "nonobject" THEN [events |-> <<>>, exc |-> "TypeError"]
    ELSE IF line.msg = "nondict" THEN [events |-> <<>>, exc |-> "AttributeError"]
    ELSE [events |-> ChunkEvents(line), exc |-> "none"]

\* except json.JSONDecodeError: continue (main.py 265-266)
CaughtInLoop(exc) == exc \in {"none", "JSONDecodeError"}

\* except httpx.RequestError (main.py 268-270)
OnRequestErrorSilent(evs) == evs

OnRequestError(evs) == Append(evs, ErrorEvent("Cannot connect to Ollama"))

\* except Exception (main.py 271-273)
OnException(evs) == Append(evs, ErrorEvent("Error"))

Repeat(n, x) == [i \in 1..n |-> x]

StreamStart ==
    /\ pc = "start"
    /\ consumed = <<>>
    /\ emitted = <<>>
    /\ evline = <<>>
    /\ transport = "none"

\* client.stream(...) cannot reach the backend, or times out (main.py 245-249)
ConnectFail ==
    /\ pc = "start"
    /\ transport' = "request_error"
    /\ emitted' = OnRequestError(emitted)
    /\ evline' = evline \o Repeat(Len(emitted') - Len(emitted), 0)
    /\ pc' = "closed"
    /\ UNCHANGED consumed
    /\ UNCHANGED nonStreamVars

\* response.raise_for_status() on a non-2xx response (main.py 250):
\* httpx.HTTPStatusError is no RequestError, so `except Exception` takes it.
BadStatus ==
    /\ pc = "start"
    /\ transport' = "status_error"
    /\ emitted' = OnException(emitted)
    /\ evline' = Append(evline, 0)
    /\ pc' = "closed"
    /\ UNCHANGED consumed
    /\ UNCHANGED nonStreamVars

\* the response arrives with a 2xx status: the loop starts (main.py 250-252)
ConnectOk ==
    /\ pc = "start"
    /\ pc' = "reading"
    /\ UNCHANGED <<consumed, emitted, evline, transport>>
    /\ UNCHANGED nonStreamVars

\* a relay that reads the lines and holds their events back
ReadLineBuffered(line) ==
    /\ pc = "reading"
    /\ Len(consumed) < MaxLines
    /\ consumed' = Append(consumed, line)
    /\ UNCHANGED <<pc, emitted, evline, transport>>
    /\ UNCHANGED nonStreamVars

\* One iteration of `async for line in response.aiter_lines()` (main.py 252-266)
ReadLine(line) ==
    /\ pc = "reading"
    /\ Len(consumed) < MaxLines
    /\ consumed' = Append(consumed, line)
    /\ LET r == LineOutcome(line)
           evs == IF CaughtInLoop(r.exc) THEN r.events ELSE OnException(r.events)
       IN /\ emitted' = emitted \o evs
          /\ evline' = evline \o Repeat(Len(evs), Len(consumed) + 1)
          /\ pc' = IF CaughtInLoop(r.exc) THEN "reading" ELSE "closed"
    /\ UNCHANGED transport
    /\ UNCHANGED nonStreamVars

\* aiter_lines() is exhausted: the generator returns (main.py 252)
BackendEnd ==
    /\ pc = "reading"
    /\ transport' = "ended"
    /\ pc' = "closed"
    /\ UNCHANGED <<consumed, emitted, evline>>
    /\ UNCHANGED nonStreamVars

\* aiter_lines() raises httpx.ReadError / ReadTimeout / RemoteProtocolError,
\* all of them httpx.RequestError (main.py 252, 268-270)
TransportFail ==
    /\ pc = "reading"
    /\ transport' = "request_error"
    /\ emitted' = OnRequestError(emitted)
    /\ evline' = evline \o Repeat(Len(emitted') - Len(emitted), 0)
    /\ pc' = "closed"
    /\ UNCHANGED consumed
    /\ UNCHANGED nonStreamVars

StreamNext ==
    \/ ConnectFail
    \/ BadStatus
    \/ ConnectOk
    \/ \E line \in BackendLines : ReadLine(line)
    \/ BackendEnd
    \/ TransportFail

(***************************************************************************)
(* validate_safe_path and the file endpoints (main.py 33-57, 285-449)      *)
(*                                                                         *)
(* A resolved path is the sequence of its segments (<<>> is "/").  A path  *)
(* as a caller writes it is a base ("/", "~", or "." for a relative path)  *)
(* followed by segments, ".." among them.                                  *)
(***************************************************************************)
HOME == <<"home", "u">>                \* Path.home()
CWD == <<"home", "u", "a">>            \* the working directory of the process
WORKSPACE_ROOT == HOME                 \* main.py 33, WORKSPACE_ROOT unset

Segments == {"a", "etc", "u2", "out", ".."}
Bases == {"/", "~", "."}

\* the characters of a segment name
NameChars ==
    [n \in {"home", "u", "u2", "a", "etc", "out", "m.py"} |->
        CASE n = "home" -> <<"h", "o", "m", "e">>
          [] n = "u" -> <<"u">>
          [] n = "u2" -> <<"u", "2">>
          [] n = "a" -> <<"a">>
          [] n = "etc" -> <<"e", "t", "c">>
          [] n = "out" -> <<"o", "u", "t">>
          [] n = "m.py" -> <<"m", ".", "p", "y">>]

\* symbolic links of the filesystem: link |-> its (resolved) target
Symlinks == (<<"home", "u", "out">> :> <<"etc">>)

InitialDirs ==
    { <<>>, <<"home">>, <<"home", "u">>, <<"home", "u", "a">>,
      <<"home", "u", "etc">>, <<"home", "u2">>, <<"etc">> }

InitialFiles ==
    { <<"home", "u", "u2">>, <<"home", "u", "a", "a">>,
      <<"home", "u", "a", "u2">>, <<"home", "u", "etc", "a">>,
      <<"home", "u2", "a">>, <<"etc", "a">>,
      <<"home", "u", "a", "m.py">>, <<"home", "u2", "m.py">> }

\* files larger than MAX_FILE_READ_SIZE (main.py 37)
BigFiles == { <<"home", "u", "a", "u2">> }

\* Path.expanduser() (main.py 43): a leading "~" becomes the home directory;
\* a relative path is taken from the working directory by resolve().
BasePath(base) ==
    CASE base = "/" -> <<>>
      [] base = "~" -> HOME
      [] base = "." -> CWD

Parent(p) == SubSeq(p, 1, Len(p) - 1)

\* Path.resolve() (main.py 43): the segments taken left to right, ".."
\* dropping the last segment of what is resolved so far (and staying at "/"),
\* a symbolic link replaced by its target as soon as it is reached.
RECURSIVE ResolveFrom(_, _)
ResolveFrom(cur, segs) ==
    IF segs = <<>> THEN cur
    ELSE LET s == Head(segs)
             q == Append(cur, s)
             nxt == IF s = ".." THEN (IF cur = <<>> THEN <<>> ELSE Parent(cur))
                    ELSE IF q \in DOMAIN Symlinks THEN Symlinks[q]
                    ELSE q
         IN ResolveFrom(nxt, Tail(segs))

resolve(raw) == ResolveFrom(BasePath(raw.base), raw.segs)

\* os.path.abspath for comparison: ".." collapsed, links not resolved
RECURSIVE NormalizeFrom(_, _)
NormalizeFrom(cur, segs) ==
    IF segs = <<>> THEN cur
    ELSE LET s == Head(segs)
             nxt == IF s = ".." THEN (IF cur = <<>> THEN <<>> ELSE Parent(cur))
                    ELSE Append(cur, s)
         IN NormalizeFrom(nxt, Tail(segs))

\* PurePath.relative_to (main.py 47): p is `allowed` or lies below it,
\* segment by segment
relative_to(p, allowed) ==
    /\ Len(allowed) <= Len(p)
    /\ SubSeq(p, 1, Len(allowed)) = allowed

\* str(resolved) (main.py 53), as a sequence of characters
RECURSIVE JoinSegs(_)
JoinSegs(p) ==
    IF p = <<>> THEN <<>> ELSE <<"/">> \o NameChars[Head(p)] \o JoinSegs(Tail(p))

PathStr(p) == IF p = <<>> THEN <<"/">> ELSE JoinSegs(p)

\* `pattern in path_str` (main.py 54)
Contains(hay, needle) ==
    \E i \in 0..(Len(hay) - Len(needle)) :
        SubSeq(hay, i + 1, i + Len(needle)) = needle

\* main.py 52
sensitive_patterns ==
    { <<"/", "e", "t", "c", "/">>, <<"/", "s", "y", "s", "/">>,
      <<"/", "p", "r", "o", "c", "/">>, <<"/", ".", "s", "s", "h", "/">>,
      <<"/", "r", "o", "o", "t", "/">> }

Forbidden(status, detail) == [ok |-> FALSE, status |-> status, detail |-> detail, path |-> <<>>]

\* validate_safe_path (main.py 41-57): the resolved path, or the 403 raised
validate_safe_path_Lexical(raw) ==
    LET resolved == NormalizeFrom(BasePath(raw.base), raw.segs)
        path_str == PathStr(resolved)
    IN IF ~relative_to(resolved, WORKSPACE_ROOT)
       THEN Forbidden(403, "OutsideRoot")
       ELSE IF \E pattern \in sensitive_patterns : Contains(path_str, pattern)
       THEN Forbidden(403, "SensitiveLocation")
       ELSE [ok |-> TRUE, status |-> 200, detail |-> "", path |-> resolved]

validate_safe_path_NoDenylist(raw) ==
    LET resolved == resolve(raw)
    IN IF ~relative_to(resolved, WORKSPACE_ROOT)
       THEN Forbidden(403, "OutsideRoot")
       ELSE [ok |-> TRUE, status |-> 200, detail |-> "", path |-> resolved]

validate_safe_path(raw) ==
    LET resolved == resolve(raw)
        path_str == PathStr(resolved)
    IN IF ~relative_to(resolved, WORKSPACE_ROOT)
       THEN Forbidden(403, "OutsideRoot")
       ELSE IF \E pattern \in sensitive_patterns : Contains(path_str, pattern)
       THEN Forbidden(403, "SensitiveLocation")
       ELSE [ok |-> TRUE, status |-> 200, detail |-> "", path |-> resolved]

NoRequest == [base |-> ".", segs |-> <<>>]
NoResponse == [status |-> 0, detail |-> ""]

PathStart ==
    /\ files = InitialFiles
    /\ dirs = InitialDirs
    /\ ppc = "idle"
    /\ req = NoRequest
    /\ lastop = "none"
    /\ resp = NoResponse
    /\ opened = {}
    /\ listed = {}
    /\ created = {}

\* a client starts writing the path of a request
NewRequest(base) ==
    /\ ppc \in {"idle", "done"}
    /\ ppc' = "compose"
    /\ req' = [base |-> base, segs |-> <<>>]
    /\ lastop' = "none"
    /\ resp' = NoResponse
    /\ opened' = {}
    /\ listed' = {}
    /\ created' = {}
    /\ UNCHANGED <<files, dirs>>
    /\ UNCHANGED nonPathVars

AddSegment(s) ==
    /\ ppc = "compose"
    /\ Len(req.segs) < MaxSegs
    /\ req' = [req EXCEPT !.segs = Append(@, s)]
    /\ UNCHANGED <<files, dirs, ppc, lastop, resp, opened, listed, created>>
    /\ UNCHANGED nonPathVars

Respond(op, status, detail) ==
    /\ ppc' = "done"
    /\ lastop' = op
    /\ resp' = [status |-> status, detail |-> detail]
    /\ UNCHANGED req

\* POST /tools/read_file (main.py 285-315)
read_file ==
    /\ ppc = "compose"
    /\ LET v == validate_safe_path(req)
           file_path == v.path
       IN /\ IF ~v.ok THEN Respond("read_file", v.status, v.detail) /\ opened' = {}
             ELSE IF file_path \notin files \cup dirs
             THEN Respond("read_file", 404, "File not found") /\ opened' = {}
             ELSE IF file_path \notin files
             THEN Respond("read_file", 400, "Path is not a file") /\ opened' = {}
             ELSE IF file_path \in BigFiles
             THEN Respond("read_file", 413, "File too large") /\ opened' = {}
             ELSE Respond("read_file", 200, "") /\ opened' = {file_path}
    /\ listed' = {}
    /\ created' = {}
    /\ UNCHANGED <<files, dirs>>
    /\ UNCHANGED nonPathVars

\* the proper prefixes of p that are not "/"
Ancestors(p) == { SubSeq(p, 1, n) : n \in 1..(Len(p) - 1) }

\* POST /tools/write_file (main.py 317-337)
\*   file_path.parent.mkdir(parents=True, exist_ok=True) fails when the parent
\*   or one of its ancestors is a file; open(file_path, 'w') fails on a directory.
write_file ==
    /\ ppc = "compose"
    /\ LET v == validate_safe_path(req)
           file_path == v.path
       IN IF ~v.ok
          THEN /\ Respond("write_file", v.status, v.detail)
               /\ UNCHANGED <<files, dirs>>
               /\ created' = {}
          ELSE IF Ancestors(file_path) \cap files # {}
          THEN /\ Respond("write_file", 500, "mkdir failed")
               /\ UNCHANGED <<files, dirs>>
               /\ created' = {}
          ELSE IF file_path \in dirs
          THEN /\ Respond("write_file", 500, "Is a directory")
               /\ UNCHANGED <<files, dirs>>
               /\ created' = {}
          ELSE /\ \/ file_path \in files
                  \/ Cardinality(files \ InitialFiles) < MaxWrites
               /\ Respond("write_file", 200, "")
               /\ dirs' = dirs \cup Ancestors(file_path)
               /\ files' = files \cup {file_path}
               /\ created' = (files' \cup dirs') \ (files \cup dirs)
    /\ opened' = {}
    /\ listed' = {}
    /\ UNCHANGED nonPathVars

\* POST /tools/search (main.py 339-380): every file below root_path whose
\* name does not hold the query is opened and read, unless it is too large.
\* (rglob is taken not to descend through symbolic links.)
search_files(query) ==
    /\ ppc = "compose"
    /\ LET v == validate_safe_path(req)
           root_path == v.path
           below == { f \in files : relative_to(f, root_path) /\ f # root_path }
       IN IF ~v.ok
          THEN Respond("search", v.status, v.detail) /\ opened' = {} /\ listed' = {}
          ELSE IF root_path \notin files \cup dirs
          THEN Respond("search", 404, "Root path not found") /\ opened' = {} /\ listed' = {}
          ELSE /\ Respond("search", 200, "")
               /\ opened' = { f \in below :
                                /\ ~Contains(NameChars[f[Len(f)]], query)
                                /\ f \notin BigFiles }
               /\ listed' = { d \in dirs : relative_to(d, root_path) }
    /\ created' = {}
    /\ UNCHANGED <<files, dirs>>
    /\ UNCHANGED nonPathVars

Queries == { <<"u">> }

\* GET /workspace/files (main.py 382-449)
get_workspace_files ==
    /\ ppc = "compose"
    /\ LET v == validate_safe_path(req)
           root_path == v.path
       IN IF ~v.ok
          THEN Respond("workspace_files", v.status, v.detail) /\ listed' = {}
          ELSE IF root_path \notin files \cup dirs
          THEN Respond("workspace_files", 404, "Path not found") /\ listed' = {}
          ELSE IF root_path \in files
          THEN Respond("workspace_files", 200, "") /\ listed' = {}
          ELSE Respond("workspace_files", 200, "") /\ listed' = {root_path}
    /\ opened' = {}
    /\ created' = {}
    /\ UNCHANGED <<files, dirs>>
    /\ UNCHANGED nonPathVars

PathNext ==
    \/ \E base \in Bases : NewRequest(base)
    \/ \E s \in Segments : AddSegment(s)
    \/ read_file
    \/ write_file
    \/ \E query \in Queries : search_files(query)
    \/ get_workspace_files

(***************************************************************************)
(* run_tool and the tool handlers (tools_router.py 27-46, 113-428)         *)
(***************************************************************************)
WorkspaceTools ==
    {"summarize_workspace", "list_files", "scan_todos", "analyze_codebase",
     "generate_readme"}

KnownTools == WorkspaceTools \cup {"summarize_csv"}

ToolNames == KnownTools \cup {"unknown_tool"}

\* request.model: empty, or the name of a model
Models == {"", "dummy-model"}

\* request.activeSheetData: absent, without rows, a sheet with columns and
\* rows, or a sheet whose column names are not strings (", ".join raises)
Sheets == {"none", "empty", "data", "badcolumns"}

\* request.workspacePath
WorkspacePaths ==
    [base : Bases, segs : {<<>>} \cup {<<x>> : x \in Segments}]

\* what the model backend does with the POST of run_ollama_model
BackendOutcomes == {"ok", "unreachable", "timeout", "status500"}

BackendFailed(outcome) == outcome \in {"unreachable", "timeout", "status500"}

\* Path(file).suffix: the name from its last dot on, when that dot is not the
\* first character; <<>> otherwise
LastDot(chars) ==
    LET dots == { i \in 2..Len(chars) : chars[i] = "." }
    IN IF dots = {} THEN 0 ELSE CHOOSE i \in dots : \A j \in dots : j <= i

suffix(name) ==
    LET chars == NameChars[name]
        d == LastDot(chars)
    IN IF d = 0 THEN <<>> ELSE SubSeq(chars, d, Len(chars))

\* the extensions both reading handlers accept (tools_router.py 182, 240);
\* scan_todos also takes .md and .txt
code_extensions ==
    { <<".", "t", "s">>, <<".", "t", "s", "x">>, <<".", "j", "s">>,
      <<".", "j", "s", "x">>, <<".", "p", "y">> }

todo_extensions == code_extensions \cup { <<".", "m", "d">>, <<".", "t", "x", "t">> }

\* the files holding a line with "todo" or "fixme"
TodoFiles == { <<"home", "u2", "m.py">> }

\* the number of lines of a file: /home/u2/m.py is longer than a preview
FileLines(f) == IF f = <<"home", "u2", "m.py">> THEN PREVIEW_LINES + 1 ELSE 1

\* the lines a reading handler reads from a file it opens: all of them, by
\* `await f.readlines()` in scan_todos (tools_router.py 199) and by
\* `await f.read()` in analyze_codebase (257), which cuts the preview out of
\* the whole content afterwards (259-260)
LinesRead(toolName, f) == FileLines(f)

\* the code files analyze_codebase opens before `len(files_analyzed) >= 20`
\* ends its walk (tools_router.py 268-274): the first MAX_ANALYZED in the
\* order of os.walk, which is the order the directories are listed in
AnalyzedSets(code) ==
    { chosen \in SUBSET code :
        Cardinality(chosen) = Min(MAX_ANALYZED, Cardinality(code)) }

\* the directories os.walk(workspace) yields and the files in them; a
\* workspace that does not exist, or is a file, yields nothing
WalkedDirs(workspace) == { d \in dirs : relative_to(d, workspace) }

WalkedFiles(workspace) ==
    { f \in files : Parent(f) \in WalkedDirs(workspace) }

\* run_ollama_model (tools_router.py 27-46): the text it returns; a status
\* other than 200 and an exception of the request both become a text
run_ollama_model(outcome) ==
    CASE outcome = "ok" -> "response"
      [] outcome = "status500" -> "Error: Model returned status 500"
      [] OTHER -> "Error calling model"

NoToolRequest ==
    [toolName |-> "unknown_tool", workspacePath |-> NoRequest, model |-> "",
     sheet |-> "none"]

NoToolResponse == [status |-> 0, success |-> FALSE, result |-> ""]

ToolStart ==
    /\ tpc = "idle"
    /\ treq = NoToolRequest
    /\ tresp = NoToolResponse
    /\ walked = {}
    /\ tread = {}
    /\ calls = 0
    /\ backend = "none"
    /\ result = ""

\* POST /api/tools/run arrives (tools_router.py 393-399)
ToolRequest(toolName, workspacePath, model, sheet) ==
    /\ tpc = "idle"
    /\ tpc' = "received"
    /\ treq' = [toolName |-> toolName, workspacePath |-> workspacePath,
                model |-> model, sheet |-> sheet]
    /\ tresp' = NoToolResponse
    /\ walked' = {}
    /\ tread' = {}
    /\ calls' = 0
    /\ backend' = "none"
    /\ result' = ""
    /\ UNCHANGED nonToolVars

ToolRespond(status, success, text) ==
    /\ tpc' = "responded"
    /\ tresp' = [status |-> status, success |-> success, result |-> text]

\* the check of the model made after the workspace was walked
RejectMissingModelAfterWalk ==
    /\ tpc = "received"
    /\ treq.model = ""
    /\ ToolRespond(400, FALSE, "Model is required")
    /\ walked' = IF treq.toolName \in WorkspaceTools
                 THEN WalkedDirs(resolve(treq.workspacePath)) ELSE {}
    /\ UNCHANGED <<treq, tread, calls, backend, result>>
    /\ UNCHANGED nonToolVars

\* if not model: raise HTTPException(400) (tools_router.py 401-402)
RejectMissingModel ==
    /\ tpc = "received"
    /\ treq.model = ""
    /\ ToolRespond(400, FALSE, "Model is required")
    /\ UNCHANGED <<treq, walked, tread, calls, backend, result>>
    /\ UNCHANGED nonToolVars

\* else: raise HTTPException(400) (tools_router.py 417-418)
RejectUnknownTool ==
    /\ tpc = "received"
    /\ treq.model # ""
    /\ treq.toolName \notin KnownTools
    /\ ToolRespond(400, FALSE, "Unknown tool")
    /\ UNCHANGED <<treq, walked, tread, calls, backend, result>>
    /\ UNCHANGED nonToolVars

\* The filesystem work of a workspace handler, up to its model call:
\*   summarize_workspace, list_files, generate_readme scan the structure
\*     (tools_router.py 115, 144, 306); generate_readme also looks for
\*     package.json and requirements.txt, of which the model filesystem has none;
\*   scan_todos opens every file with a listed extension (180-221) and returns
\*     without a model call when it finds no marker (214-215);
\*   analyze_codebase opens the first MAX_ANALYZED files with a code
\*     extension (238-285) and returns without a model call when there is
\*     none (278-279).
\* The workspace path is used as the client gave it.
HandlerScan ==
    /\ tpc = "received"
    /\ treq.model # ""
    /\ treq.toolName \in WorkspaceTools
    /\ LET workspace == resolve(treq.workspacePath)
           found == WalkedFiles(workspace)
           todos == { f \in found : suffix(f[Len(f)]) \in todo_extensions }
           code == { f \in found : suffix(f[Len(f)]) \in code_extensions }
       IN /\ walked' = WalkedDirs(workspace)
          /\ \E chosen \in AnalyzedSets(code) :
                tread' = CASE treq.toolName = "scan_todos" -> todos
                           [] treq.toolName = "analyze_codebase" -> chosen
                           [] OTHER -> {}
          /\ IF treq.toolName = "scan_todos" /\ todos \cap TodoFiles = {}
             THEN /\ ToolRespond(200, TRUE, "No TODO or FIXME comments found")
                  /\ result' = "No TODO or FIXME comments found"
             ELSE IF treq.toolName = "analyze_codebase" /\ code = {}
             THEN /\ ToolRespond(200, TRUE, "No code files found to analyze")
                  /\ result' = "No code files found to analyze"
             ELSE /\ tpc' = "prompted"
                  /\ UNCHANGED <<tresp, result>>
    /\ UNCHANGED <<treq, calls, backend>>
    /\ UNCHANGED nonToolVars

\* tool_summarize_csv up to its model call (tools_router.py 352-388)
HandlerCsv ==
    /\ tpc = "received"
    /\ treq.model # ""
    /\ treq.toolName = "summarize_csv"
    /\ CASE treq.sheet = "none" ->
              /\ ToolRespond(200, TRUE, "No active sheet data provided")
              /\ result' = "No active sheet data provided"
         [] treq.sheet = "empty" ->
              /\ ToolRespond(200, TRUE, "Sheet data is empty or invalid")
              /\ result' = "Sheet data is empty or invalid"
         [] treq.sheet = "badcolumns" ->
              \* TypeError in ", ".join(columns): except Exception (427-428)
              /\ ToolRespond(500, FALSE, "Tool execution failed")
              /\ UNCHANGED result
         [] OTHER ->
              /\ tpc' = "prompted"
              /\ UNCHANGED <<tresp, result>>
    /\ UNCHANGED <<treq, walked, tread, calls, backend>>
    /\ UNCHANGED nonToolVars

\* return await run_ollama_model(model, prompt): the backend answers, cannot
\* be reached, times out or answers with another status than 200
ModelCall(outcome) ==
    /\ tpc = "prompted"
    /\ tpc' = "returned"
    /\ calls' = calls + 1
    /\ backend' = outcome
    /\ result' = run_ollama_model(outcome)
    /\ UNCHANGED <<treq, tresp, walked, tread>>
    /\ UNCHANGED nonToolVars

\* a handler that also writes what the model returned into the workspace
ToolReturnWritingFile ==
    /\ tpc = "returned"
    /\ ToolRespond(200, TRUE, result)
    /\ files' = files \cup {<<"home", "u", "m.py">>}
    /\ UNCHANGED <<treq, walked, tread, calls, backend, result>>
    /\ UNCHANGED <<dirs, ppc, req, lastop, resp, opened, listed, created>>
    /\ UNCHANGED <<streamVars, scanVars, chatVars>>

\* return {"success": True, "tool": tool_name, "result": result}
\* (tools_router.py 420-424)
ToolReturn ==
    /\ tpc = "returned"
    /\ ToolRespond(200, TRUE, result)
    /\ UNCHANGED <<treq, walked, tread, calls, backend, result>>
    /\ UNCHANGED nonToolVars

\* the response is sent: the next request finds the router as it started
ToolDone ==
    /\ tpc = "responded"
    /\ tpc' = "idle"
    /\ treq' = NoToolRequest
    /\ tresp' = NoToolResponse
    /\ walked' = {}
    /\ tread' = {}
    /\ calls' = 0
    /\ backend' = "none"
    /\ result' = ""
    /\ UNCHANGED nonToolVars

ToolNext ==
    \/ \E toolName \in ToolNames, workspacePath \in WorkspacePaths,
          model \in Models, sheet \in Sheets :
          ToolRequest(toolName, workspacePath, model, sheet)
    \/ RejectMissingModel
    \/ RejectUnknownTool
    \/ HandlerScan
    \/ HandlerCsv
    \/ \E outcome \in BackendOutcomes : ModelCall(outcome)
    \/ ToolReturn
    \/ ToolDone

(***************************************************************************)
(* scan_workspace_structure (tools_router.py 48-111)                       *)
(*                                                                         *)
(* The workspace is a tree of at most six directories:                     *)
(*        1 (the workspace) -- 2 -- 4 -- 5                                 *)
(*                          \- 3 -- 6                                      *)
(* Each directory has a name, a number of files, an inode number and a     *)
(* device.  os.walk is top-down: a directory is yielded with the list of   *)
(* its subdirectories, the loop body runs, and the subdirectories the body *)
(* left in the list are walked next, in order, before the siblings.  With  *)
(* followlinks=False a symbolic link to a directory is listed among the    *)
(* subdirectories but never walked into.                                   *)
(***************************************************************************)
ignore_dirs ==
    {".git", "node_modules", "__pycache__", "venv", ".venv", "dist", "build", ".next"}

Nodes == 1..6

ParentOf == <<0, 1, 1, 2, 4, 3>>

\* the directories of the shape that the tree scanned has
Present(n) == n \in tree.present

\* the subdirectories os.walk lists for a directory, in listing order
Kids(n) ==
    SelectSeq(CASE n = 1 -> <<2, 3>>
                [] n = 2 -> <<4>>
                [] n = 3 -> <<6>>
                [] n = 4 -> <<5>>
                [] OTHER -> <<>>,
              Present)

\* os.walk(followlinks=False) walks into a listed subdirectory unless it is
\* a symbolic link
NotLink(n) == n \notin tree.links

\* the names a directory of the tree may have (that of the workspace itself
\* plays no part)
NodeNames ==
    [n \in Nodes |->
        CASE n = 1 -> {"ws"}
          [] n = 2 -> {"src"}
          [] n = 3 -> {"lib", ".git"}
          [] n = 4 -> {"pkg", "node_modules"}
          [] n = 5 -> {"deep"}
          [] n = 6 -> {"obj", "build"}]

FileNames == <<"f1", "f2", "f3", "f4", "f5", "f6", "f7", "f8">>

\* the file counts of the trees scanned: at most MAX_FILES + 1 files in a
\* directory and MAX_FILES + 2 in the tree
RECURSIVE SumTo(_, _)
SumTo(f, n) == IF n = 0 THEN 0 ELSE f[n] + SumTo(f, n - 1)

FileCounts ==
    { f \in [Nodes -> 0..(MAX_FILES + 1)] : SumTo(f, 6) <= MAX_FILES + 2 }

\* inode number and device of each directory: all different, or directory 3
\* the root of another filesystem mounted in the workspace that has the inode
\* number of directory 2
Identities ==
    { [n \in Nodes |-> [ino |-> 10 + n, dev |-> 1]],
      [n \in Nodes |-> IF n \in {3, 6}
                        THEN [ino |-> IF n = 3 THEN 12 ELSE 16, dev |-> 2]
                        ELSE [ino |-> 10 + n, dev |-> 1]] }

\* max_depth: 4 by default, 6 for list_files, smaller values to reach the
\* limit in a tree of depth 3
MaxDepths == {1, 2, 4}

\* Path(root).relative_to(workspace), as the sequence of its parts
RECURSIVE RelPath(_)
RelPath(n) == IF n = 1 THEN <<>> ELSE Append(RelPath(ParentOf[n]), tree.name[n])

EmptyStructure ==
    [directories |-> <<>>, files |-> <<>>, total_files |-> 0, total_dirs |-> 0,
     truncated |-> FALSE]

\* recording every directory, the workspace itself too
RecordDirWithRoot(st, rel_root) ==
    IF st.total_dirs < MAX_DIRS
    THEN [st EXCEPT !.directories = Append(@, rel_root), !.total_dirs = @ + 1]
    ELSE st

\* tools_router.py 96-100: the directory is recorded, unless it is the
\* workspace itself or the ceiling is reached
RecordDir(st, rel_root) ==
    IF rel_root # <<>> /\ st.total_dirs < MAX_DIRS
    THEN [st EXCEPT !.directories = Append(@, rel_root), !.total_dirs = @ + 1]
    ELSE st

\* recording the files of the directory whether there is room or not
RECURSIVE RecordFilesNoCeiling(_, _, _, _)
RecordFilesNoCeiling(st, rel_root, i, n) ==
    IF i > n THEN st
    ELSE RecordFilesNoCeiling(
           [st EXCEPT !.files = Append(@, Append(rel_root, FileNames[i])),
                      !.total_files = @ + 1],
           rel_root, i + 1, n)

\* tools_router.py 102-106: the files of the directory, while there is room
RECURSIVE RecordFiles(_, _, _, _)
RecordFiles(st, rel_root, i, n) ==
    IF i > n THEN st
    ELSE RecordFiles(
           IF st.total_files < MAX_FILES
           THEN [st EXCEPT !.files = Append(@, Append(rel_root, FileNames[i])),
                           !.total_files = @ + 1]
           ELSE st,
           rel_root, i + 1, n)

\* dirs[:] = [d for d in dirs if d not in ignore_dirs] (tools_router.py 88)
NotIgnored(n) == tree.name[n] \notin ignore_dirs

\* the file counts of the trees with links and mounts: no file or one file
\* in each directory
FewFiles == [Nodes -> {0, 1}]

PlainIdentity == [n \in Nodes |-> [ino |-> 10 + n, dev |-> 1]]

\* the trees of six directories without links
FullTrees ==
    { [name |-> [n \in Nodes |-> CASE n = 3 -> n3 [] n = 4 -> n4 [] n = 6 -> n6
                                   [] n = 1 -> "ws" [] n = 2 -> "src" [] OTHER -> "deep"],
       nfiles |-> fc, id |-> id, exists |-> TRUE, present |-> Nodes, links |-> {}] :
        n3 \in NodeNames[3], n4 \in NodeNames[4], n6 \in NodeNames[6],
        fc \in FileCounts, id \in Identities }

\* src/pkg is also mounted at lib (a bind mount): directory 3 is the physical
\* directory 4 and directory 6 the physical directory 5, with the same
\* entries; pkg may have an ignored name, and so may deep
MountTrees ==
    { [name |-> [n \in Nodes |-> CASE n = 4 -> n4 [] n \in {5, 6} -> n5
                                   [] n = 1 -> "ws" [] n = 2 -> "src" [] OTHER -> "lib"],
       nfiles |-> fc,
       id |-> [n \in Nodes |-> CASE n = 3 -> PlainIdentity[4]
                                 [] n = 6 -> PlainIdentity[5]
                                 [] OTHER -> PlainIdentity[n]],
       exists |-> TRUE, present |-> Nodes, links |-> {}] :
        n4 \in NodeNames[4], n5 \in {"deep", "build"},
        fc \in { f \in FewFiles : f[3] = f[4] /\ f[6] = f[5] } }

\* lib/obj is a symbolic link to the workspace, or to src
LinkTrees ==
    { [name |-> [n \in Nodes |-> CASE n = 1 -> "ws" [] n = 2 -> "src" [] n = 3 -> "lib"
                                   [] n = 4 -> "pkg" [] n = 5 -> "deep" [] OTHER -> "obj"],
       nfiles |-> [fc EXCEPT ![6] = 0],
       id |-> [PlainIdentity EXCEPT ![6] = PlainIdentity[target]],
       exists |-> TRUE, present |-> Nodes, links |-> {6}] :
        fc \in FewFiles, target \in {1, 2} }

\* a workspace without entries, and one with files only
FlatTrees ==
    { [name |-> [n \in Nodes |-> "ws"], nfiles |-> [n \in Nodes |-> IF n = 1 THEN k ELSE 0],
       id |-> PlainIdentity, exists |-> TRUE, present |-> {1}, links |-> {}] :
        k \in 0..(MAX_FILES + 1) }

\* the trees scanned, and whether the workspace path exists at all
Trees ==
    FullTrees \cup MountTrees \cup LinkTrees \cup FlatTrees
    \cup
    { [name |-> [n \in Nodes |-> "ws"], nfiles |-> [n \in Nodes |-> 0],
       id |-> PlainIdentity, exists |-> FALSE, present |-> {}, links |-> {}] }

ScanStart ==
    /\ spc = "called"
    /\ tree \in Trees
    /\ max_depth \in MaxDepths
    /\ structure = EmptyStructure
    /\ seen_inodes = {}
    /\ pending = <<>>
    /\ visited = <<>>

\* tools_router.py 64-72: a workspace that does not exist gives the empty
\* structure; otherwise os.walk starts at the workspace
ScanBegin ==
    /\ spc = "called"
    /\ IF tree.exists
       THEN spc' = "walking" /\ pending' = <<1>>
       ELSE spc' = "returned" /\ pending' = <<>>
    /\ UNCHANGED <<tree, max_depth, structure, seen_inodes, visited>>
    /\ UNCHANGED nonScanVars

\* the loop without its check of the inodes seen
LoopBodyNoInodeCheck(root, st, seen) ==
    LET subdirs == Kids(root)
        inode == tree.id[root].ino
        kept == SelectSeq(subdirs, NotIgnored)
        rel_root == RelPath(root)
        depth == Len(rel_root)
    IN IF st.total_files >= MAX_FILES \/ st.total_dirs >= MAX_DIRS
       THEN [structure |-> [st EXCEPT !.truncated = TRUE], seen |-> seen,
             dirs |-> <<>>, break |-> TRUE, recorded |-> FALSE]
       ELSE IF depth >= max_depth
       THEN [structure |-> st, seen |-> seen \cup {inode}, dirs |-> <<>>,
             break |-> FALSE, recorded |-> FALSE]
       ELSE [structure |-> RecordFiles(RecordDir(st, rel_root), rel_root, 1,
                                       tree.nfiles[root]),
             seen |-> seen \cup {inode}, dirs |-> kept, break |-> FALSE,
             recorded |-> TRUE]

\* What one iteration of the loop (tools_router.py 72-106) makes of the
\* directory os.walk yields: the structure, the inodes seen, the
\* subdirectories left to os.walk, and whether the loop goes on.
LoopBody(root, st, seen) ==
    LET subdirs == Kids(root)
        inode == tree.id[root].ino
        kept == SelectSeq(subdirs, NotIgnored)
        rel_root == RelPath(root)
        depth == Len(rel_root)
    IN IF st.total_files >= MAX_FILES \/ st.total_dirs >= MAX_DIRS
       THEN [structure |-> [st EXCEPT !.truncated = TRUE], seen |-> seen,
             dirs |-> <<>>, break |-> TRUE, recorded |-> FALSE]
       ELSE IF inode \in seen
       THEN [structure |-> st, seen |-> seen, dirs |-> subdirs, break |-> FALSE,
             recorded |-> FALSE]
       ELSE IF depth >= max_depth
       THEN [structure |-> st, seen |-> seen \cup {inode}, dirs |-> <<>>,
             break |-> FALSE, recorded |-> FALSE]
       ELSE [structure |-> RecordFiles(RecordDir(st, rel_root), rel_root, 1,
                                       tree.nfiles[root]),
             seen |-> seen \cup {inode}, dirs |-> kept, break |-> FALSE,
             recorded |-> TRUE]

\* One iteration of `for root, dirs, files in os.walk(workspace)`
WalkStep ==
    /\ spc = "walking"
    /\ pending # <<>>
    /\ LET root == Head(pending)
           r == LoopBody(root, structure, seen_inodes)
       IN /\ structure' = r.structure
          /\ seen_inodes' = r.seen
          /\ visited' = IF r.recorded THEN Append(visited, root) ELSE visited
          /\ IF r.break
             THEN spc' = "returned" /\ pending' = <<>>
             ELSE /\ spc' = "walking"
                  /\ pending' = SelectSeq(r.dirs, NotLink) \o Tail(pending)
    /\ UNCHANGED <<tree, max_depth>>
    /\ UNCHANGED nonScanVars

\* os.walk is exhausted: return structure (tools_router.py 108)
WalkEnd ==
    /\ spc = "walking"
    /\ pending = <<>>
    /\ spc' = "returned"
    /\ UNCHANGED <<tree, max_depth, structure, seen_inodes, pending, visited>>
    /\ UNCHANGED nonScanVars

\* except Exception: return structure (tools_router.py 109-111): an
\* exception raised inside the try block, by workspace.exists() on a path
\* that may not be searched or while the loop runs, ends the scan with the
\* structure as it is
ScanRaise ==
    /\ spc \in {"called", "walking"}
    /\ spc' = "caught"
    /\ pending' = <<>>
    /\ UNCHANGED <<tree, max_depth, structure, seen_inodes, visited>>
    /\ UNCHANGED nonScanVars

ScanNext ==
    \/ ScanBegin
    \/ WalkStep
    \/ WalkEnd
    \/ ScanRaise

(***************************************************************************)
(* The chat endpoints (main.py 34, 59-63, 114-115, 492-608)                *)
(*                                                                         *)
(* A chat id is a sequence of characters; a path is a sequence of          *)
(* segments, each a sequence of characters (".json" counts as one).        *)
(***************************************************************************)
\* the characters of CHAT_ID_PATTERN's class [A-Za-z0-9_-] that occur in ids
PatternChars == {"a", "Z", "1", "_", "-"}

\* the characters clients build ids from
IdChars == {"a", ".", "/"}

RECURSIVE SeqsUpTo(_, _)
SeqsUpTo(S, n) ==
    IF n = 0 THEN {<<>>}
    ELSE LET shorter == SeqsUpTo(S, n - 1)
         IN shorter \cup { Append(q, c) : q \in shorter, c \in S }

\* the ids of requests: every id of up to MaxIdLen characters, the id of the
\* tests, and ids that differ from a valid one by a line feed ("LF")
ChatIds ==
    SeqsUpTo(IdChars, MaxIdLen)
    \cup { <<"a", "-", "1", "_", "Z">>, <<"a", "LF">>, <<"LF", "a">> }

\* /chats/{chat_id}: the router hands get_chat and delete_chat a path
\* segment, which is not empty and holds no "/"; "list" goes to list_chats
SegmentIds == { id \in ChatIds : id # <<>> /\ \A i \in 1..Len(id) : id[i] # "/" }

CHATS_DIR == << <<"app">>, <<"chats">> >>

\* the directories there are
ChatDirs == { <<>>, << <<"app">> >>, CHATS_DIR }

\* re.match(r'^[A-Za-z0-9_-]+$', chat_id): `$` also matches before a line
\* feed that ends the string
validate_chat_id_Match(chat_id) ==
    LET body == IF chat_id # <<>> /\ chat_id[Len(chat_id)] = "LF"
                THEN SubSeq(chat_id, 1, Len(chat_id) - 1) ELSE chat_id
    IN body # <<>> /\ \A i \in 1..Len(body) : body[i] \in PatternChars

\* validate_chat_id (main.py 59-63): CHAT_ID_PATTERN.fullmatch(chat_id), the
\* whole id is one or more characters of the class; TRUE when it passes
validate_chat_id(chat_id) ==
    /\ chat_id # <<>>
    /\ \A i \in 1..Len(chat_id) : chat_id[i] \in PatternChars

\* the segments of a name, split at "/"
RECURSIVE Split(_)
Split(chars) ==
    LET slashes == { i \in 1..Len(chars) : chars[i] = "/" }
    IN IF slashes = {} THEN <<chars>>
       ELSE LET i == CHOOSE k \in slashes : \A j \in slashes : k <= j
            IN <<SubSeq(chars, 1, i - 1)>> \o Split(SubSeq(chars, i + 1, Len(chars)))

\* the file the operating system reaches from a directory by the segments
RECURSIVE Reach(_, _)
Reach(base, segs) ==
    IF segs = <<>> THEN base
    ELSE LET seg == Head(segs)
             next == IF seg = <<>> \/ seg = <<".">> THEN base
                     ELSE IF seg = <<".", ".">>
                     THEN (IF base = <<>> THEN base ELSE SubSeq(base, 1, Len(base) - 1))
                     ELSE Append(base, seg)
         IN Reach(next, Tail(segs))

\* chat_file = CHATS_DIR / f"{safe_chat_id}.json" (main.py 537, 557, 594): a
\* name that starts with "/" is taken from the root
ChatFile(chat_id) ==
    LET name == Append(chat_id, ".json")
    IN Reach(IF name[1] = "/" THEN <<>> ELSE CHATS_DIR, Split(name))

\* a chat saved earlier, a file in the chats directory that holds no JSON,
\* and a file next to the chats directory
InitialChatFiles ==
    { ChatFile(<<"a">>), ChatFile(<<"a", "a">>), ChatFile(<<".", ".", "/", "a">>) }

ChatStart ==
    /\ chatfiles = InitialChatFiles
    /\ corrupt = { ChatFile(<<"a", "a">>) }
    /\ cpc = "idle"
    /\ creq = <<>>
    /\ cresp = 0
    /\ cread = {}
    /\ cwritten = {}
    /\ cdeleted = {}

\* a request arrives at one of the chat endpoints
ChatRequest(op, id) ==
    /\ cpc = "idle"
    /\ op \in {"get", "delete"} => id \in SegmentIds
    /\ cpc' = "received"
    /\ creq' = [op |-> op, id |-> id]
    /\ UNCHANGED <<chatfiles, corrupt, cresp, cread, cwritten, cdeleted>>
    /\ UNCHANGED nonChatVars

\* get_chat (main.py 532-549)
get_chat ==
    /\ cpc = "received"
    /\ creq.op = "get"
    /\ cpc' = "done"
    /\ LET chat_file == ChatFile(creq.id)
       IN IF ~validate_chat_id(creq.id)
          THEN cresp' = 400 /\ cread' = {}
          ELSE IF chat_file \notin chatfiles
          THEN cresp' = 404 /\ cread' = {}
          ELSE /\ cread' = {chat_file}
               /\ cresp' = IF chat_file \in corrupt THEN 500 ELSE 200
    /\ UNCHANGED <<chatfiles, corrupt, creq, cwritten, cdeleted>>
    /\ UNCHANGED nonChatVars

\* save_chat (main.py 551-586): an existing file is read first, for its
\* createdAt; the file is opened for writing, which fails when its
\* directory does not exist
save_chat ==
    /\ cpc = "received"
    /\ creq.op = "save"
    /\ cpc' = "done"
    /\ LET chat_file == ChatFile(creq.id)
           parent == SubSeq(chat_file, 1, Len(chat_file) - 1)
       IN IF ~validate_chat_id(creq.id)
          THEN /\ cresp' = 400
               /\ UNCHANGED <<chatfiles, corrupt, cread, cwritten>>
          ELSE IF chat_file \in chatfiles /\ chat_file \in corrupt
          THEN /\ cresp' = 500
               /\ cread' = {chat_file}
               /\ UNCHANGED <<chatfiles, corrupt, cwritten>>
          ELSE IF chat_file \in ChatDirs \/ parent \notin ChatDirs
          THEN /\ cresp' = 500
               /\ UNCHANGED <<chatfiles, corrupt, cread, cwritten>>
          ELSE /\ cresp' = 200
               /\ cread' = IF chat_file \in chatfiles THEN {chat_file} ELSE {}
               /\ cwritten' = {chat_file}
               /\ chatfiles' = chatfiles \cup {chat_file}
               /\ UNCHANGED corrupt
    /\ UNCHANGED <<creq, cdeleted>>
    /\ UNCHANGED nonChatVars

\* delete_chat (main.py 588-606)
delete_chat ==
    /\ cpc = "received"
    /\ creq.op = "delete"
    /\ cpc' = "done"
    /\ LET chat_file == ChatFile(creq.id)
       IN IF ~validate_chat_id(creq.id)
          THEN cresp' = 400 /\ UNCHANGED <<chatfiles, corrupt, cdeleted>>
          ELSE IF chat_file \notin chatfiles
          THEN cresp' = 404 /\ UNCHANGED <<chatfiles, corrupt, cdeleted>>
          ELSE /\ cresp' = 200
               /\ chatfiles' = chatfiles \ {chat_file}
               /\ corrupt' = corrupt \ {chat_file}
               /\ cdeleted' = {chat_file}
    /\ UNCHANGED <<creq, cread, cwritten>>
    /\ UNCHANGED nonChatVars

\* list_chats (main.py 492-530): every *.json file of the chats directory
\* is read; one that cannot be parsed is passed over
list_chats ==
    /\ cpc = "received"
    /\ creq.op = "list"
    /\ cpc' = "done"
    /\ cresp' = 200
    /\ cread' = { f \in chatfiles : SubSeq(f, 1, Len(f) - 1) = CHATS_DIR }
    /\ UNCHANGED <<chatfiles, corrupt, creq, cwritten, cdeleted>>
    /\ UNCHANGED nonChatVars

\* the response is sent
ChatDone ==
    /\ cpc = "done"
    /\ cpc' = "idle"
    /\ creq' = <<>>
    /\ cresp' = 0
    /\ cread' = {}
    /\ cwritten' = {}
    /\ cdeleted' = {}
    /\ UNCHANGED <<chatfiles, corrupt>>
    /\ UNCHANGED nonChatVars

ChatNext ==
    \/ \E op \in {"get", "save", "delete"}, id \in ChatIds : ChatRequest(op, id)
    \/ ChatRequest("list", <<>>)
    \/ get_chat
    \/ save_chat
    \/ delete_chat
    \/ list_chats
    \/ ChatDone

\* no chat request and no chat file
ChatIdle ==
    /\ chatfiles = {}
    /\ corrupt = {}
    /\ cpc = "idle"
    /\ creq = <<>>
    /\ cresp = 0
    /\ cread = {}
    /\ cwritten = {}
    /\ cdeleted = {}

\* a scan that is not running: the other specifications leave it so
ScanIdle ==
    /\ spc = "idle"
    /\ tree = <<>>
    /\ max_depth = 4
    /\ structure = <<>>
    /\ seen_inodes = {}
    /\ pending = <<>>
    /\ visited = <<>>

\* no tool request
ToolIdle ==
    /\ tpc = "idle"
    /\ treq = <<>>
    /\ tresp = <<>>
    /\ walked = {}
    /\ tread = {}
    /\ calls = 0
    /\ backend = "none"
    /\ result = ""

\* no stream
StreamIdle ==
    /\ pc = "idle"
    /\ consumed = <<>>
    /\ emitted = <<>>
    /\ evline = <<>>
    /\ transport = "none"

\* no filesystem: the relay and the scan of a tree use none of it
PathIdle ==
    /\ files = {}
    /\ dirs = {}
    /\ ppc = "idle"
    /\ req = <<>>
    /\ lastop = "none"
    /\ resp = <<>>
    /\ opened = {}
    /\ listed = {}
    /\ created = {}

(***************************************************************************)
(* The specifications: one for each part of the backend, the other parts   *)
(* at rest.                                                                *)
(***************************************************************************)
StreamInit == StreamStart /\ PathIdle /\ ToolIdle /\ ScanIdle /\ ChatIdle

SpecStream == StreamInit /\ [][StreamNext]_vars

PathInit == PathStart /\ StreamIdle /\ ToolIdle /\ ScanIdle /\ ChatIdle

SpecPath == PathInit /\ [][PathNext]_vars

\* the tool handlers work on the filesystem of the file endpoints
ToolInit == ToolStart /\ StreamIdle /\ PathStart /\ ScanIdle /\ ChatIdle

SpecTool == ToolInit /\ [][ToolNext]_vars

ScanInit == ScanStart /\ StreamIdle /\ PathIdle /\ ToolIdle /\ ChatIdle

SpecScan == ScanInit /\ [][ScanNext]_vars

\* the scan is a synchronous function: once called it runs on until it returns
FairSpecScan == SpecScan /\ WF_vars(ScanNext)

ChatInit == ChatStart /\ StreamIdle /\ PathIdle /\ ToolIdle /\ ScanIdle

SpecChat == ChatInit /\ [][ChatNext]_vars

(***************************************************************************)
(* Properties of validate_safe_path and the file endpoints                 *)
(***************************************************************************)
Handled == ppc = "done"

\* the caller's path, expanded and with its links resolved, is neither the
\* authorized root nor below it
OutsideRoot(raw) == ~relative_to(resolve(raw), WORKSPACE_ROOT)

\* the resolved form of the caller's path holds a denylisted substring
Denylisted(raw) ==
    \E pattern \in sensitive_patterns : Contains(PathStr(resolve(raw)), pattern)

\* C1: a caller-supplied path whose resolved form is outside the authorized
\* root fails validation with 403 OutsideRoot; read_file, write_file, search
\* and workspace/files answer 403 and read, list and create nothing.
C1_OutsideRootRejected ==
    /\ OutsideRoot(req) => validate_safe_path(req) = Forbidden(403, "OutsideRoot")
    /\ (Handled /\ OutsideRoot(req)) =>
          /\ resp = [status |-> 403, detail |-> "OutsideRoot"]
          /\ opened = {}
          /\ listed = {}
          /\ created = {}
          /\ \A f \in (files \cup dirs) \ (InitialFiles \cup InitialDirs) :
                relative_to(f, WORKSPACE_ROOT)

\* a request through the symbolic link ~/out, which leads out of the root
C1_Witness ==
    /\ Handled
    /\ lastop = "write_file"
    /\ req = [base |-> "~", segs |-> <<"out", "a">>]
    /\ resolve(req) = <<"etc", "a">>
    /\ resp.status = 403

\* C2 as stated: a path whose resolved form holds a denylisted substring
\* fails validation with 403 SensitiveLocation, inside the root or not.
C2_DenylistedIsSensitiveLocation ==
    (Handled /\ Denylisted(req)) =>
        resp = [status |-> 403, detail |-> "SensitiveLocation"]

\* C2 as amended: such a path fails validation with 403 and nothing is read,
\* listed or created; the error is SensitiveLocation when the resolved path
\* is inside the authorized root and OutsideRoot when it is not.
C2_DenylistedRejected ==
    (Handled /\ Denylisted(req)) =>
        /\ resp.status = 403
        /\ resp.detail = IF OutsideRoot(req) THEN "OutsideRoot" ELSE "SensitiveLocation"
        /\ opened = {}
        /\ listed = {}
        /\ created = {}

\* ~/etc/a is inside the root and holds "/etc/"
C2_Witness ==
    /\ Handled
    /\ lastop = "read_file"
    /\ req = [base |-> "~", segs |-> <<"etc", "a">>]
    /\ ~OutsideRoot(req)
    /\ resolve(req) \in files
    /\ resp = [status |-> 403, detail |-> "SensitiveLocation"]

(***************************************************************************)
(* Properties of run_tool                                                  *)
(***************************************************************************)
Responded == tpc = "responded"

NoWorkDone == walked = {} /\ tread = {} /\ calls = 0

\* C3: a tool-run request whose workspacePath resolves outside the
\* authorized root is answered 403 for every workspace tool, and no
\* directory is scanned, no file read and no model call made for it.
C3_OutsideWorkspaceRejected ==
    (/\ tpc # "idle"
     /\ treq.toolName \in WorkspaceTools
     /\ treq.model # ""
     /\ OutsideRoot(treq.workspacePath)) =>
        /\ NoWorkDone
        /\ Responded => tresp.status = 403

\* C4: when the model call of a tool run fails (backend unreachable,
\* timeout, status other than 200), run_tool answers with an HTTP error and
\* never with success = true.
C4_ModelFailureIsHttpError ==
    (Responded /\ BackendFailed(backend)) =>
        /\ tresp.status >= 400
        /\ ~tresp.success

\* C12: a tool-run request with an empty model is answered 400 "Model is
\* required" (MissingModel), and one with a model and a toolName outside the
\* six known tools 400 "Unknown tool" (UnknownTool); from its arrival to its
\* answer no directory is walked, no file opened and no model call made.
C12_InvalidRequestRejected ==
    /\ (tpc # "idle" /\ treq.model = "") =>
          /\ NoWorkDone
          /\ Responded =>
                tresp = [status |-> 400, success |-> FALSE, result |-> "Model is required"]
    /\ (tpc # "idle" /\ treq.model # "" /\ treq.toolName \notin KnownTools) =>
          /\ NoWorkDone
          /\ Responded =>
                tresp = [status |-> 400, success |-> FALSE, result |-> "Unknown tool"]
    /\ Cardinality(KnownTools) = 6

C12_Witness ==
    /\ Responded
    /\ treq.toolName = "unknown_tool"
    /\ treq.model = "dummy-model"
    /\ treq.workspacePath = [base |-> "~", segs |-> <<>>]
    /\ tresp.status = 400
    /\ tresp.result = "Unknown tool"
    /\ NoWorkDone

\* C13: whatever the workspace holds, scan_todos and analyze_codebase open
\* at most a fixed number of files (the MAX_ANALYZED of analyze_codebase) and
\* read at most a fixed number of lines (PREVIEW_LINES) from each.
C13_BoundedReads ==
    (tpc # "idle" /\ treq.toolName \in {"scan_todos", "analyze_codebase"}) =>
        /\ Cardinality(tread) <= MAX_ANALYZED
        /\ \A f \in tread : LinesRead(treq.toolName, f) <= PREVIEW_LINES

\* C14: no step of run_tool, of a handler or of the scan of the workspace
\* changes the files and directories of the filesystem, whatever the
\* request and its outcome.
C14_FilesystemUnchanged == [][files' = files /\ dirs' = dirs]_vars

\* a request that walked the workspace, read a file and called the model
C14_Witness ==
    /\ Responded
    /\ treq.toolName = "analyze_codebase"
    /\ walked # {}
    /\ tread # {}
    /\ calls = 1
    /\ tresp.status = 200
    /\ files = InitialFiles
    /\ dirs = InitialDirs

(***************************************************************************)
(* Properties of scan_workspace_structure                                  *)
(***************************************************************************)
Returned == spc = "returned"

Depth(n) == Len(RelPath(n))

\* no directory on the way from the workspace to n has an ignored name
RECURSIVE Unignored(_)
Unignored(n) ==
    n = 1 \/ (NotIgnored(n) /\ NotLink(n) /\ Unignored(ParentOf[n]))

\* the directories whose contents a scan without ceilings records: those
\* within the depth limit that no ignored directory and no link leads to
Recordable(n) ==
    tree.exists /\ Present(n) /\ Unignored(n) /\ Depth(n) < max_depth

RECURSIVE FilesIn(_)
FilesIn(S) ==
    IF S = {} THEN 0
    ELSE LET n == CHOOSE x \in S : TRUE IN tree.nfiles[n] + FilesIn(S \ {n})

RecordableFiles == FilesIn({ n \in Nodes : Recordable(n) })

RecordableDirs == { n \in Nodes \ {1} : Recordable(n) }

DistinctInodes ==
    \A m, n \in Nodes : m # n => tree.id[m].ino # tree.id[n].ino

\* C10: for a tree with more recordable files than MAX_FILES, however they
\* are spread over the directories, the scan returns truncated = true and
\* exactly MAX_FILES entries in files.  (Stated for the trees whose
\* directories have different inode numbers and stay below MAX_DIRS, where
\* nothing but the file ceiling keeps a file out of the result.)
C10_TruncatedAtFileCeiling ==
    (/\ Returned
     /\ DistinctInodes
     /\ Cardinality(RecordableDirs) < MAX_DIRS
     /\ RecordableFiles > MAX_FILES) =>
        /\ structure.truncated
        /\ Len(structure.files) = MAX_FILES

Finished == spc \in {"returned", "caught"}

\* the directory of the tree that a relative path leads to
NodeAt(path) == CHOOSE n \in tree.present : RelPath(n) = path

\* the directory part of a recorded file path
DirOf(file_path) == SubSeq(file_path, 1, Len(file_path) - 1)

\* the files of no physical directory (device and inode) are in the result
\* under two paths
PhysicalOnce ==
    \A i, j \in 1..Len(structure.files) :
        LET m == NodeAt(DirOf(structure.files[i]))
            n == NodeAt(DirOf(structure.files[j]))
        IN m # n => tree.id[m] # tree.id[n]

\* C11: for every tree, also one where a mount or a link makes a physical
\* directory reachable by several paths, the scan terminates, and at every
\* moment the contents of each physical directory are recorded at most once:
\* no two directories whose contents were recorded are the same physical
\* directory, and no physical directory has files in the result under two
\* paths.
C11_TerminatesPhysicalOnce ==
    /\ [](/\ PhysicalOnce
          /\ \A i, j \in 1..Len(visited) :
                i # j => tree.id[visited[i]] # tree.id[visited[j]])
    /\ <>Finished

\* src/pkg/deep, also reachable as lib/deep, is recorded under the first path
\* only
C11_Witness ==
    /\ spc = "returned"
    /\ ~structure.truncated
    /\ tree.id[6] = tree.id[5]
    /\ tree.nfiles[5] = 1
    /\ <<"src", "pkg", "deep", "f1">> \in { structure.files[i] : i \in 1..Len(structure.files) }
    /\ <<"lib", "deep", "f1">> \notin { structure.files[i] : i \in 1..Len(structure.files) }
    /\ visited = <<1, 2, 4, 5>>

\* a path has an ignored name among its segments
HasIgnored(path) == \E i \in 1..Len(path) : path[i] \in ignore_dirs

\* C15: the walk never enters a directory with an ignored name (none is
\* among the directories os.walk has still to yield), and no recorded
\* directory and no directory part of a recorded file has an ignored segment.
C15_IgnoredNeverEntered ==
    /\ \A i \in 1..Len(pending) : NotIgnored(pending[i])
    /\ \A i \in 1..Len(structure.directories) : ~HasIgnored(structure.directories[i])
    /\ \A i \in 1..Len(structure.files) : ~HasIgnored(DirOf(structure.files[i]))

\* C16: the walk never reaches a directory at a depth greater than max_depth
\* (none is among the directories os.walk has still to yield), and no file
\* of a directory at depth >= max_depth is in the result.
C16_DepthLimit ==
    /\ \A i \in 1..Len(pending) : Depth(pending[i]) <= max_depth
    /\ \A i \in 1..Len(structure.files) : Len(DirOf(structure.files[i])) < max_depth

\* the workspace exists and has no entry
EmptyWorkspace == tree.exists /\ Kids(1) = <<>> /\ tree.nfiles[1] = 0

\* C17: the scan of an existing directory without entries ends with exactly
\* directories = [], files = [], total_files = 0, total_dirs = 0 and
\* truncated = false.
C17_EmptyDirectory ==
    (Finished /\ EmptyWorkspace) => structure = EmptyStructure

C17_Witness ==
    /\ spc = "returned"
    /\ EmptyWorkspace
    /\ visited = <<1>>
    /\ seen_inodes = {tree.id[1].ino}
    /\ structure = EmptyStructure

\* the counts are the lengths of the lists and within the ceilings
Consistent(st) ==
    /\ st.total_files = Len(st.files)
    /\ st.total_files <= MAX_FILES
    /\ st.total_dirs = Len(st.directories)
    /\ st.total_dirs <= MAX_DIRS

\* C20: at every point of a scan and in what it returns, also from the except
\* clause, total_files is the length of files and at most MAX_FILES, and
\* total_dirs is the length of directories and at most MAX_DIRS; this holds
\* after each single file the loop appends; and nothing recorded is
\* discarded: the result holds the files of the directories whose contents
\* were recorded, up to the ceiling, and each of these directories but the
\* workspace itself.
C20_CountsWithinCeilings ==
    spc # "idle" =>
        /\ Consistent(structure)
        /\ pending # <<>> =>
              LET root == Head(pending)
                  rel_root == RelPath(root)
              IN \A k \in 0..tree.nfiles[root] :
                    Consistent(RecordFiles(RecordDir(structure, rel_root), rel_root, 1, k))
        /\ Len(structure.files)
              = Min(MAX_FILES, FilesIn({ visited[i] : i \in 1..Len(visited) }))
        /\ Len(structure.directories)
              = Cardinality({ visited[i] : i \in 1..Len(visited) } \ {1})

\* an exception after the file ceiling was reached in src, one file of which
\* was left out
C20_Witness ==
    /\ spc = "caught"
    /\ tree.nfiles[1] = 1
    /\ tree.nfiles[2] = MAX_FILES
    /\ visited = <<1, 2>>
    /\ structure.total_files = MAX_FILES
    /\ Len(structure.files) = MAX_FILES
    /\ structure.directories = << <<"src">> >>

\* another directory of the tree is the same physical directory (device and
\* inode)
HasTwin(n) == \E m \in tree.present \ {n} : tree.id[m] = tree.id[n]

\* C21: a directory the walk yields is skipped as already seen only when the
\* tree holds the same physical directory (same device and inode) under
\* another path; and when a scan returns without truncation, every directory
\* within the depth limit, under no ignored name and no link, that is the
\* only path to its physical directory has been recorded.
C21_SkipsOnlySamePhysical ==
    /\ (/\ spc = "walking"
        /\ pending # <<>>
        /\ structure.total_files < MAX_FILES
        /\ structure.total_dirs < MAX_DIRS
        /\ tree.id[Head(pending)].ino \in seen_inodes) => HasTwin(Head(pending))
    /\ (Returned /\ ~structure.truncated) =>
          \A n \in Nodes :
              (Recordable(n) /\ ~HasTwin(n)) =>
                  n \in { visited[i] : i \in 1..Len(visited) }

\* something the scan would have recorded is missing from the result
LeftOut ==
    \/ Len(structure.files) < RecordableFiles
    \/ Len(structure.directories) < Cardinality(RecordableDirs)

\* C23: in the result of a scan truncated is true exactly when a file or a
\* directory that would have been recorded was left out; a tree with
\* exactly MAX_FILES recordable files and at most MAX_DIRS recordable
\* directories gives truncated = false with all of them recorded.  (Stated
\* for the trees whose directories have different inode numbers, where
\* nothing but a ceiling keeps a recordable entry out of the result.)
C23_TruncatedExact ==
    (Returned /\ DistinctInodes) =>
        /\ structure.truncated <=> LeftOut
        /\ (/\ RecordableFiles = MAX_FILES
            /\ Cardinality(RecordableDirs) <= MAX_DIRS) =>
              /\ ~structure.truncated
              /\ Len(structure.files) = MAX_FILES
              /\ Len(structure.directories) = Cardinality(RecordableDirs)

(***************************************************************************)
(* Properties of the chat-stream relay                                     *)
(***************************************************************************)
RECURSIVE CountType(_, _)
CountType(evs, t) ==
    IF evs = <<>> THEN 0
    ELSE (IF Head(evs).type = t THEN 1 ELSE 0) + CountType(Tail(evs), t)

Terminal(e) == e.type \in {"done", "error"}

NumTerminal == CountType(emitted, "done") + CountType(emitted, "error")

\* a line the loop parses and whose done flag it reaches
DoneLine(line) == line.k = "object" /\ line.msg # "nondict" /\ line.done

DoneProcessed == \E i \in 1..Len(consumed) : DoneLine(consumed[i])

\* C5: once a backend line flagged done=true has been processed, exactly one
\* done event has been emitted and the relay has stopped: no further line is
\* read (the done line is the last line read) and no further event is
\* emitted (the done event is the last event).
C5_StopsAfterDone ==
    DoneProcessed =>
        /\ DoneLine(consumed[Len(consumed)])
        /\ \A i \in 1..(Len(consumed) - 1) : ~DoneLine(consumed[i])
        /\ CountType(emitted, "done") = 1
        /\ emitted[Len(emitted)] = DoneEvent

\* C6: when the relay has finished, whatever the backend did, the emitted
\* sequence ends with a terminal event (done or error) and holds exactly one.
C6_ExactlyOneTerminal ==
    pc = "closed" =>
        /\ NumTerminal = 1
        /\ Len(emitted) > 0
        /\ Terminal(emitted[Len(emitted)])

TransportFailed == transport \in {"request_error", "status_error"}

\* C7: if the backend transport has failed (connection error, timeout,
\* non-2xx status), also after content events, exactly one error event has
\* been emitted, it is the last event, the relay has stopped, and the error
\* event is no done event.
C7_TransportFailureOneError ==
    TransportFailed =>
        /\ pc = "closed"
        /\ CountType(emitted, "error") = 1
        /\ Len(emitted) > 0
        /\ emitted[Len(emitted)].type = "error"
        /\ emitted[Len(emitted)] # DoneEvent

C7_Witness ==
    /\ transport = "request_error"
    /\ Len(emitted) = 2
    /\ emitted[1].type = "content"
    /\ emitted[2].type = "error"

\* What the loop makes of a sequence of lines, as a function: the events of
\* each line in turn, up to the first line whose exception leaves the loop.
RECURSIVE Translate(_)
Translate(lines) ==
    IF lines = <<>> THEN <<>>
    ELSE LET r == LineOutcome(Head(lines))
         IN IF CaughtInLoop(r.exc) THEN r.events \o Translate(Tail(lines))
            ELSE OnException(r.events)

Malformed(line) == line.k = "garbage"
WellFormed(line) == ~Malformed(line)

TransportEvents ==
    IF transport = "request_error" THEN OnRequestError(<<>>)
    ELSE IF transport = "status_error" THEN OnException(<<>>)
    ELSE <<>>

\* C8: a line that fails JSON parsing produces no event and does not end the
\* stream: the events emitted are those of the lines read with the malformed
\* ones left out, and after a malformed line the relay is still reading.
C8_MalformedLineDropped ==
    /\ emitted = Translate(SelectSeq(consumed, WellFormed)) \o TransportEvents
    /\ (/\ Len(consumed) > 0
        /\ Malformed(consumed[Len(consumed)])
        /\ transport = "none") => pc = "reading"

C8_Witness ==
    /\ Len(consumed) = 3
    /\ consumed[1].content = "a"
    /\ Malformed(consumed[2])
    /\ consumed[3].content = " b " /\ consumed[3].done
    /\ emitted = <<ContentEvent("a"), ContentEvent(" b "), DoneEvent>>

\* the texts of the content events, in order
RECURSIVE ContentTexts(_)
ContentTexts(evs) ==
    IF evs = <<>> THEN <<>>
    ELSE (IF Head(evs).type = "content" THEN <<Head(evs).text>> ELSE <<>>)
         \o ContentTexts(Tail(evs))

\* the non-empty message.content values of the parsed lines, in order
RECURSIVE ParsedContents(_)
ParsedContents(lines) ==
    IF lines = <<>> THEN <<>>
    ELSE (IF /\ Head(lines).k = "object"
             /\ Head(lines).msg = "dict"
             /\ Head(lines).content # ""
          THEN <<Head(lines).content>> ELSE <<>>)
         \o ParsedContents(Tail(lines))

\* C9: the content events are, in order and unchanged, the non-empty
\* message.content values of the parsed lines, and the content event of a
\* line precedes the done event of the same line.
C9_ContentInOrder ==
    /\ ContentTexts(emitted) = ParsedContents(consumed)
    /\ \A i, j \in 1..Len(emitted) :
          (i < j /\ evline[i] = evline[j] /\ evline[i] > 0) =>
             ~(emitted[i].type = "done" /\ emitted[j].type = "content")

C9_Witness ==
    /\ Len(consumed) = 3
    /\ consumed[1].content = " b " /\ ~consumed[1].done
    /\ consumed[2].k = "object" /\ consumed[2].msg = "dict"
    /\ consumed[2].content = "" /\ ~consumed[2].done
    /\ consumed[3].content = "a" /\ consumed[3].done
    /\ emitted = <<ContentEvent(" b "), ContentEvent("a"), DoneEvent>>

(***************************************************************************)
(* Properties of the chat endpoints                                        *)
(***************************************************************************)
\* a non-empty string over [A-Za-z0-9_-]
ValidId(id) ==
    /\ Len(id) >= 1
    /\ \A i \in 1..Len(id) : id[i] \notin {".", "/", "LF"}

\* <id>.json directly inside the chats directory, for a valid id
ChatFileOfValidId(f) ==
    \E id \in ChatIds : ValidId(id) /\ f = Append(CHATS_DIR, Append(id, ".json"))

\* C18: save, get and delete answer 400 to a chat id that is no non-empty
\* string over [A-Za-z0-9_-] and read, write and delete no file for it; the
\* file an operation writes or deletes is <id>.json directly inside the
\* chats directory for the id of the request, which passed validation; and
\* after any sequence of operations the files next to the chats directory
\* are as they were and every other file is such an <id>.json.
C18_ChatIdConfined ==
    /\ (cpc = "done" /\ creq.op # "list" /\ ~ValidId(creq.id)) =>
          /\ cresp = 400
          /\ cread = {} /\ cwritten = {} /\ cdeleted = {}
    /\ cpc = "done" =>
          \A f \in cwritten \cup cdeleted :
              /\ ValidId(creq.id)
              /\ f = Append(CHATS_DIR, Append(creq.id, ".json"))
    /\ \A f \in chatfiles : ChatFileOfValidId(f) \/ f \in InitialChatFiles
    /\ \A f \in InitialChatFiles : ChatFileOfValidId(f) \/ f \in chatfiles

\* the request of the tests: "../a" is refused and the file next to the
\* chats directory is left alone
C18_Witness ==
    /\ cpc = "done"
    /\ creq = [op |-> "save", id |-> <<".", ".", "/", "a">>]
    /\ cresp = 400
    /\ ChatFile(creq.id) = << <<"app">>, <<"a", ".json">> >>
    /\ ChatFile(creq.id) \in chatfiles
    /\ ChatFile(<<"a", "-", "1", "_", "Z">>) \in chatfiles
    /\ ChatFile(<<"a">>) \notin chatfiles

\* C22: an error event is emitted only when the backend transport has
\* failed, and no backend line, whatever it holds, ends the stream: after a
\* line was read without a transport failure the relay is still reading.
C22_ErrorOnlyOnTransportFailure ==
    /\ CountType(emitted, "error") > 0 => TransportFailed
    /\ (Len(consumed) > 0 /\ transport = "none") => pc = "reading"

\* the events the relay owes for a line it has read
EventsOf(line) ==
    LET r == LineOutcome(line)
    IN IF CaughtInLoop(r.exc) THEN r.events ELSE OnException(r.events)

\* C19: the relay is incremental: at every moment, and so whenever the next
\* backend line is read, every event of the lines read so far has been
\* emitted; each event came out while its line was the last one read, and
\* the events are in the order of their lines.
C19_Incremental ==
    /\ emitted = Translate(consumed) \o TransportEvents
    /\ \A i \in 1..Len(consumed) :
          Cardinality({ j \in 1..Len(emitted) : evline[j] = i })
            = Len(EventsOf(consumed[i]))
    /\ \A j, k \in 1..Len(emitted) :
          (j < k /\ evline[j] > 0 /\ evline[k] > 0) => evline[j] <= evline[k]

\* two lines read and the backend still sending: both content events are out
C19_Witness ==
    /\ pc = "reading"
    /\ transport = "none"
    /\ Len(consumed) = 2
    /\ emitted = <<ContentEvent("a"), ContentEvent(" b ")>>
    /\ evline = <<1, 2>>

====
